---- MODULE Spec2Model ----
(***************************************************************************)
(* Model of the event-registration module of @lumjs/web-core               *)
(* (events.js: eventOptions, onDelegatedEvent, onEvent, onEvents,          *)
(* onEvents__off) on top of a small model of the DOM primitives it calls   *)
(* (addEventListener, removeEventListener, dispatchEvent, matches,         *)
(* parentElement).                                                         *)
(*                                                                         *)
(* Events are modelled as bubbling events: a dispatch at a node visits the *)
(* capturing listeners from the top of the tree down to the node and then  *)
(* the other listeners from the node up to the top.                        *)
(***************************************************************************)
EXTENDS Integers, Sequences, FiniteSets, TLC

VARIABLES
  listeners,  \* the host's listener table, in registration order
  specs,      \* the objects built by onEvent, in creation order
  regs,       \* the MultiReg objects returned by onEvents
  ev,         \* the event object the latest operation dispatched, if any
  log,        \* the listener invocations the latest operation caused
  last,       \* the latest operation and how it ended
  doc,        \* the tree of nodes handed to getNested
  ret         \* the list the latest getNested call returned

vars == <<listeners, specs, regs, ev, log, last, doc, ret>>

(***************************************************************************)
(* Bounds of the model.                                                    *)
(***************************************************************************)
MaxCalls == 2      \* registration calls (onEvent or onEvents) per behaviour
MaxRegs == 1       \* onEvents calls among them
MaxArgCalls == 1   \* onEvent calls of the classifier specification
MaxNodes == 4      \* nodes below the parent in a tree handed to getNested
MaxDepth == 3      \* largest depth option given to getNested

(***************************************************************************)
(* The document: outer > root > mid > leaf > txt, and outer > side.        *)
(* txt is a Text node: a Node and an EventTarget, but not an Element.      *)
(***************************************************************************)
Elements == {"outer", "root", "mid", "leaf", "side"}
TextNodes == {"txt"}
Nodes == Elements \cup TextNodes
Null == "null"

parentNode(n) ==
  CASE n = "txt" -> "leaf"
    [] n = "leaf" -> "mid"
    [] n = "mid" -> "root"
    [] n = "root" -> "outer"
    [] n = "side" -> "outer"
    [] OTHER -> Null

\* Node.parentElement: the parent node when it is an Element, else null.
parentElement(n) == IF parentNode(n) \in Elements THEN parentNode(n) ELSE Null

\* The class names of each element; Element.matches(sel) is modelled for
\* class selectors (one letter) and for the universal selector "*".
classOf(n) ==
  CASE n = "outer" -> "O"
    [] n = "root" -> "R"
    [] n = "mid" -> "M"
    [] n = "leaf" -> "L"
    [] n = "side" -> "S"
    [] OTHER -> "-"

matches(n, sel) == sel = <<"*">> \/ sel = <<classOf(n)>>

(***************************************************************************)
(* JavaScript values.  Text is a sequence of one-character strings.        *)
(***************************************************************************)
Undef == [k |-> "undef"]
NodeV(n) == [k |-> "node", n |-> n]
Fn(id) == [k |-> "fn", id |-> id]
Str(s) == [k |-> "str", s |-> s]
Bool(b) == [k |-> "bool", b |-> b]
Num == [k |-> "num"]
Obj(props) == [k |-> "obj", props |-> props]
\* an object the code itself creates: id tells the instances apart
ObjNew(props, id) == [k |-> "obj", props |-> props, id |-> id]
Arr(items) == [k |-> "arr", items |-> items]
NodeList(items) == [k |-> "nodelist", items |-> items]
ListenerFn(sid) == [k |-> "listener", sid |-> sid]
OffFn(sid) == [k |-> "off", sid |-> sid]

NoProps == [x \in {} |-> Undef]

S == "string"
F == "function"

typeof(v) ==
  CASE v.k \in {"fn", "listener", "off"} -> F
    [] v.k = "str" -> S
    [] v.k = "undef" -> "undefined"
    [] v.k = "bool" -> "boolean"
    [] v.k = "num" -> "number"
    [] OTHER -> "object"

\* core.types.isObj: typeof v === 'object' && v !== null
isObj(v) == typeof(v) = "object"

instanceofElement(v) == v.k = "node" /\ v.n \in Elements

\* own properties of an object value (DOM nodes and arrays carry none of
\* the option keys)
PropsOf(v) == IF v.k = "obj" THEN v.props ELSE NoProps

Get(v, key) == IF key \in DOMAIN PropsOf(v) THEN PropsOf(v)[key] ELSE Undef

\* JavaScript truthiness
Truthy(v) ==
  /\ v.k # "undef"
  /\ ~(v.k = "str" /\ v.s = <<>>)
  /\ ~(v.k = "bool" /\ ~v.b)

(***************************************************************************)
(* Caller-supplied functions.  A selector function is a predicate of the   *)
(* candidate; the functions named in EvSelectors also read the event       *)
(* argument and pass nothing when it is missing.  A validator's result is  *)
(* chosen by the dispatch (vr).                                            *)
(***************************************************************************)
FnSelSet(id) ==
  CASE id = "selL" -> {"leaf"}
    [] id = "selM" -> {"mid"}
    [] id = "selR" -> {"root"}
    [] id = "selAll" -> Elements
    [] id = "selEvM" -> {"mid"}
    [] OTHER -> {}

EvSelectors == {"selEvM"}

FnSelect(f, n, evGiven) ==
  /\ f.k = "fn"
  /\ n \in FnSelSet(f.id)
  /\ (f.id \in EvSelectors => evGiven)

FnValidate(f, vr) == f.k = "fn" /\ f.id \in DOMAIN vr /\ vr[f.id]

(***************************************************************************)
(* The option object built by onEvent.                                     *)
(***************************************************************************)
Keys == {"target", "event", "handle", "selector", "validate", "off", "opts",
         "capture", "once", "passive", "signal", "listener", "delegated",
         "handleEvent", "extra"}

NewOpts == [key \in Keys |-> Undef]

\* Object.assign(opts, arg)
ObjectAssign(opts, arg) ==
  [key \in Keys |-> IF key \in DOMAIN PropsOf(arg) THEN PropsOf(arg)[key]
                    ELSE opts[key]]

SS == 1
SF == 2
OO == {"capture", "once", "passive", "signal"}

\* eventOptions(opts): the options object after the call; the value the
\* function returns is its opts property.  sid is the identity of the opts
\* object, which the record made for it inherits.
eventOptions(opts, sid) ==
  IF isObj(opts.opts) THEN opts
  ELSE [opts EXCEPT !.opts =
          ObjNew([o \in {p \in OO : opts[p] # Undef} |-> opts[o]], sid)]

(***************************************************************************)
(* The host: EventTarget.addEventListener / removeEventListener.           *)
(* An entry is identified by target, type, callback and capture flag; a    *)
(* second add of the same entry is ignored.  owners is bookkeeping of the  *)
(* model: the specs whose registration call named the entry.               *)
(***************************************************************************)
captureOf(lo) == Truthy(Get(lo, "capture"))
onceOf(lo) == Truthy(Get(lo, "once"))

SameEntry(e, target, type, callback, capture) ==
  /\ e.target = target
  /\ e.type = type
  /\ e.callback = callback
  /\ e.capture = capture

RECURSIVE SeqFilterOut(_, _, _, _, _)
SeqFilterOut(L, target, type, callback, capture) ==
  IF L = <<>> THEN <<>>
  ELSE IF SameEntry(Head(L), target, type, callback, capture)
       THEN SeqFilterOut(Tail(L), target, type, callback, capture)
       ELSE <<Head(L)>> \o SeqFilterOut(Tail(L), target, type, callback, capture)

addEventListener(L, target, type, callback, lo, owner) ==
  IF callback = Undef THEN L
  ELSE IF \E i \in 1..Len(L) : SameEntry(L[i], target, type, callback, captureOf(lo))
  THEN [i \in 1..Len(L) |->
          IF SameEntry(L[i], target, type, callback, captureOf(lo))
          THEN [L[i] EXCEPT !.owners = @ \cup {owner}]
          ELSE L[i]]
  ELSE Append(L, [target |-> target, type |-> type, callback |-> callback,
                  capture |-> captureOf(lo), once |-> onceOf(lo),
                  owners |-> {owner}])

removeEventListener(L, target, type, callback, lo) ==
  SeqFilterOut(L, target, type, callback, captureOf(lo))

\* the record of one call of a host primitive: what was passed, and the spec
\* on whose behalf
HostCall(prim, target, type, callback, lo, by) ==
  [prim |-> prim, target |-> target, type |-> type, callback |-> callback,
   lo |-> lo, by |-> by]

(***************************************************************************)
(* onDelegatedEvent(opts).  sid names the listener closure it creates; the *)
(* closure keeps the opts object (the spec) it was made for.               *)
(***************************************************************************)
selt(o) ==
  CASE typeof(o.selector) = S -> SS
    [] typeof(o.selector) = F -> SF
    [] OTHER -> 0

\* Variant of onDelegatedEvent that attaches the listener before it tests
\* the target: a node that is no element keeps a listener when the call
\* throws.
onDelegatedEventLateTest(L, opts, sid) ==
  IF ~instanceofElement(opts.target)
  THEN [threw |-> "Invalid parent element",
        L |-> IF opts.target.k = "node"
              THEN addEventListener(L, opts.target.n, opts.event,
                                    ListenerFn(sid),
                                    eventOptions(opts, sid).opts, sid)
              ELSE L,
        opts |-> opts, listener |-> Undef, calls |-> <<>>]
  ELSE LET o2 == eventOptions(opts, sid)
       IN [threw |-> "",
           L |-> addEventListener(L, opts.target.n, opts.event,
                                  ListenerFn(sid), o2.opts, sid),
           opts |-> o2,
           listener |-> ListenerFn(sid),
           calls |-> <<HostCall("add", opts.target, opts.event,
                                ListenerFn(sid), o2.opts, sid)>>]

onDelegatedEvent(L, opts, sid) ==
  IF ~instanceofElement(opts.target)
  THEN [threw |-> "Invalid parent element", L |-> L, opts |-> opts,
        listener |-> Undef, calls |-> <<>>]
  ELSE LET o2 == eventOptions(opts, sid)
       IN [threw |-> "",
           L |-> addEventListener(L, opts.target.n, opts.event,
                                  ListenerFn(sid), o2.opts, sid),
           opts |-> o2,
           listener |-> ListenerFn(sid),
           calls |-> <<HostCall("add", opts.target, opts.event,
                                ListenerFn(sid), o2.opts, sid)>>]

\* findDelegate(targetElem, ev) of the closure made for o.  evGiven tells
\* whether the ev argument was supplied; the listener passes only ev.target
\* and the recursive call only the parent element.  tested lists the
\* candidates the selector was tried on.
RECURSIVE findDelegate(_, _, _)
findDelegate(o, targetElem, evGiven) ==
  IF targetElem \notin Elements
  THEN [delegate |-> Null, tested |-> <<>>]
  ELSE IF selt(o) \notin {SS, SF}
  THEN [delegate |-> Null, tested |-> <<>>]
  ELSE LET pass == IF selt(o) = SS THEN matches(targetElem, o.selector.s)
                   ELSE FnSelect(o.selector, targetElem, evGiven)
           here == <<[cand |-> targetElem, evGiven |-> evGiven]>>
       IN IF pass THEN [delegate |-> targetElem, tested |-> here]
          ELSE IF targetElem = o.target.n
               THEN [delegate |-> Null, tested |-> here]
               ELSE LET up == findDelegate(o, parentElement(targetElem), FALSE)
                    IN [delegate |-> up.delegate, tested |-> here \o up.tested]

(***************************************************************************)
(* The event object.  native is the node the host dispatched it at; own is *)
(* the own target property a listener defined on it, if any.               *)
(***************************************************************************)
NewEvent(type, n) ==
  [type |-> type, native |-> n, own |-> Null, originalTarget |-> Null,
   captureTarget |-> Null]

\* ev.target
EvTarget(e) == IF e.own # Null THEN e.own ELSE e.native

\* the arguments a handler is called with: the event being dispatched, the
\* opts object of the registration sid
EventArg == [arg |-> "event"]
SpecArg(sid) == [arg |-> "spec", sid |-> sid]

howCalled(handler) ==
  IF typeof(handler) = F THEN "call"
  ELSE IF isObj(handler) /\ typeof(Get(handler, "handleEvent")) = F
       THEN "handleEvent"
       ELSE "none"

\* Variant of the listener closure that resolves the delegate before it
\* asks the validator: the selector is evaluated on a vetoed dispatch too.
delegationListenerSelectFirst(sid, o, this, e, vr) ==
  LET hasV == typeof(o.validate) = F
      start == EvTarget(e)
      call(vok, fd, found, remap, how, e1) ==
        [ev |-> e1,
         rec |-> [kind |-> "delegated", sid |-> sid, owners |-> {sid},
                  this |-> this, native |-> e.native, start |-> start,
                  validated |-> hasV, vok |-> vok, tested |-> fd.tested,
                  delegate |-> fd.delegate,
                  how |-> IF found THEN how ELSE "none",
                  receiver |-> IF found /\ how = "call"
                               THEN fd.delegate ELSE Null,
                  passed |-> IF found /\ how # "none"
                             THEN <<EventArg, SpecArg(sid)>> ELSE <<>>,
                  remapped |-> remap,
                  origBefore |-> e.originalTarget,
                  evTarget |-> EvTarget(e1),
                  evOriginal |-> e1.originalTarget,
                  evCapture |-> e1.captureTarget]]
      define(vok, fd, found, remap) ==
        call(vok, fd, found, remap, howCalled(o.handle),
             IF ~found THEN e
             ELSE [e EXCEPT !.captureTarget = this,
                            !.originalTarget = IF remap THEN start ELSE @,
                            !.own = IF remap THEN fd.delegate ELSE @])
      resolved(vok, fd) ==
        define(vok, fd, vok /\ fd.delegate \in Elements,
               vok /\ fd.delegate \in Elements /\ fd.delegate # start)
      validated(vok) ==
        resolved(vok,
                 IF selt(o) # 0 THEN findDelegate(o, start, FALSE)
                 ELSE [delegate |-> o.target.n, tested |-> <<>>])
  IN validated(~hasV \/ FnValidate(o.validate, vr))

\* A handler attached directly: the host calls it with the event as it is.

\* Variant of the listener closure that calls the handler with its own
\* receiver, the node it is attached to, instead of the delegate.
delegationListenerThisReceiver(sid, o, this, e, vr) ==
  LET hasV == typeof(o.validate) = F
      start == EvTarget(e)
      call(vok, fd, found, remap, how, e1) ==
        [ev |-> e1,
         rec |-> [kind |-> "delegated", sid |-> sid, owners |-> {sid},
                  this |-> this, native |-> e.native, start |-> start,
                  validated |-> hasV, vok |-> vok, tested |-> fd.tested,
                  delegate |-> fd.delegate,
                  how |-> IF found THEN how ELSE "none",
                  receiver |-> IF found /\ how = "call"
                               THEN this ELSE Null,
                  passed |-> IF found /\ how # "none"
                             THEN <<EventArg, SpecArg(sid)>> ELSE <<>>,
                  remapped |-> remap,
                  origBefore |-> e.originalTarget,
                  evTarget |-> EvTarget(e1),
                  evOriginal |-> e1.originalTarget,
                  evCapture |-> e1.captureTarget]]
      define(vok, fd, found, remap) ==
        call(vok, fd, found, remap, howCalled(o.handle),
             IF ~found THEN e
             ELSE [e EXCEPT !.captureTarget = this,
                            !.originalTarget = IF remap THEN start ELSE @,
                            !.own = IF remap THEN fd.delegate ELSE @])
      resolved(vok, fd) ==
        define(vok, fd, fd.delegate \in Elements,
               fd.delegate \in Elements /\ fd.delegate # start)
      validated(vok) ==
        resolved(vok,
                 IF ~vok THEN [delegate |-> Null, tested |-> <<>>]
                 ELSE IF selt(o) # 0 THEN findDelegate(o, start, FALSE)
                 ELSE [delegate |-> o.target.n, tested |-> <<>>])
  IN validated(~hasV \/ FnValidate(o.validate, vr))

\* The listener closure of onDelegatedEvent, run by the host with `this`
\* bound to the node it is attached to.  Gives the event afterwards and a
\* record of what the listener did.
delegationListener(sid, o, this, e, vr) ==
  LET hasV == typeof(o.validate) = F
      start == EvTarget(e)
      call(vok, fd, found, remap, how, e1) ==
        [ev |-> e1,
         rec |-> [kind |-> "delegated", sid |-> sid, owners |-> {sid},
                  this |-> this, native |-> e.native, start |-> start,
                  validated |-> hasV, vok |-> vok, tested |-> fd.tested,
                  delegate |-> fd.delegate,
                  how |-> IF found THEN how ELSE "none",
                  receiver |-> IF found /\ how = "call"
                               THEN fd.delegate ELSE Null,
                  passed |-> IF found /\ how # "none"
                             THEN <<EventArg, SpecArg(sid)>> ELSE <<>>,
                  remapped |-> remap,
                  origBefore |-> e.originalTarget,
                  evTarget |-> EvTarget(e1),
                  evOriginal |-> e1.originalTarget,
                  evCapture |-> e1.captureTarget]]
      define(vok, fd, found, remap) ==
        call(vok, fd, found, remap, howCalled(o.handle),
             IF ~found THEN e
             ELSE [e EXCEPT !.captureTarget = this,
                            !.originalTarget = IF remap THEN start ELSE @,
                            !.own = IF remap THEN fd.delegate ELSE @])
      resolved(vok, fd) ==
        define(vok, fd, fd.delegate \in Elements,
               fd.delegate \in Elements /\ fd.delegate # start)
      validated(vok) ==
        resolved(vok,
                 IF ~vok THEN [delegate |-> Null, tested |-> <<>>]
                 ELSE IF selt(o) # 0 THEN findDelegate(o, start, FALSE)
                 ELSE [delegate |-> o.target.n, tested |-> <<>>])
  IN validated(~hasV \/ FnValidate(o.validate, vr))

\* A handler attached directly: the host calls it with the event as it is.
directListener(entry, e) ==
  LET call(how) ==
        [kind |-> "direct", sid |-> 0, owners |-> entry.owners,
         this |-> entry.target, native |-> e.native, start |-> EvTarget(e),
         validated |-> FALSE, vok |-> TRUE, tested |-> <<>>,
         delegate |-> Null,
         how |-> how,
         receiver |-> IF how = "call" THEN entry.target ELSE Null,
         passed |-> IF how # "none" THEN <<EventArg>> ELSE <<>>,
         remapped |-> FALSE,
         origBefore |-> e.originalTarget,
         evTarget |-> EvTarget(e),
         evOriginal |-> e.originalTarget,
         evCapture |-> e.captureTarget]
  IN [ev |-> e, rec |-> call(howCalled(entry.callback))]

(***************************************************************************)
(* EventTarget.dispatchEvent for a bubbling event.                         *)
(***************************************************************************)
RECURSIVE pathOf(_)
pathOf(n) == IF n = Null THEN <<>> ELSE <<n>> \o pathOf(parentNode(n))

Reverse(s) == [i \in 1..Len(s) |-> s[Len(s) + 1 - i]]

\* indexes of the entries of L invoked at the nodes of path, in order
RECURSIVE phase(_, _, _, _)
phase(L, path, type, capture) ==
  IF path = <<>> THEN <<>>
  ELSE SelectSeq([i \in 1..Len(L) |-> i],
                 LAMBDA i : /\ L[i].target = Head(path)
                            /\ L[i].type = type
                            /\ L[i].capture = capture)
       \o phase(L, Tail(path), type, capture)

invocationOrder(L, n, type) ==
  phase(L, Reverse(pathOf(n)), type, TRUE) \o phase(L, pathOf(n), type, FALSE)

RECURSIVE runListeners(_, _, _, _, _)
runListeners(L, S0, queue, e, vr) ==
  IF queue = <<>> THEN [ev |-> e, log |-> <<>>]
  ELSE LET entry == L[Head(queue)]
           prepend(rec, rest) == [ev |-> rest.ev, log |-> <<rec>> \o rest.log]
           then(r) == prepend(r.rec, runListeners(L, S0, Tail(queue), r.ev, vr))
       IN then(IF entry.callback.k = "listener"
               THEN delegationListener(entry.callback.sid,
                                       S0[entry.callback.sid].o,
                                       entry.target, e, vr)
               ELSE directListener(entry, e))

\* the table after a dispatch: the entries added with once that were invoked
\* are gone
afterOnce(L, queue) ==
  LET entries(kept) == [i \in 1..Len(kept) |-> kept[i].e]
  IN entries(SelectSeq([i \in 1..Len(L) |->
               [e |-> L[i],
                drop |-> L[i].once /\ \E j \in 1..Len(queue) : queue[j] = i]],
            LAMBDA x : ~x.drop))

dispatchEvent(L, S0, e, vr) ==
  LET done(run, kept) == [ev |-> run.ev, log |-> run.log, L |-> kept]
      invoke(queue) == done(runListeners(L, S0, queue, e, vr),
                            afterOnce(L, queue))
  IN invoke(invocationOrder(L, e.native, e.type))

(***************************************************************************)
(* utils.getNested(parent, opts, retList).  A tree has the nodes           *)
(* 0..MaxNodes: 0 is the parent handed to the call, parent[i] < i is the   *)
(* parent node of i, text holds the Text nodes; siblings are in the order  *)
(* of their numbers.                                                       *)
(***************************************************************************)
NoDoc == [parent |-> <<>>, text |-> {}]

Number(i) == [k |-> "num", v |-> i]

\* core.types.N
N == "number"

\* depth > 0 (false for undefined)
GreaterThanZero(v) == v.k = "num" /\ v.v > 0

RECURSIVE ascending(_, _)
ascending(set, from) ==
  IF set = {} THEN <<>>
  ELSE IF from \in set
       THEN <<from>> \o ascending(set \ {from}, from + 1)
       ELSE ascending(set, from + 1)

\* node.childNodes
childNodes(tree, n) ==
  ascending({i \in DOMAIN tree.parent : tree.parent[i] = n}, 1)

\* node.children: the child nodes that are elements
children(tree, n) ==
  ascending({i \in DOMAIN tree.parent :
               tree.parent[i] = n /\ i \notin tree.text}, 1)

\* the depth the call works with: typeof (opts.depth === N) is the text
\* "boolean", which is truthy
depthOf(opts) ==
  IF typeof(Bool(opts.depth = Str(<<N>>))) # ""
  THEN opts.depth
  ELSE Number(99)

RECURSIVE getNested(_, _, _, _)
RECURSIVE getNestedEach(_, _, _, _)
getNested(tree, parent, opts, retList) ==
  LET allNodes == IF opts.allNodes = Undef THEN Bool(FALSE) ELSE opts.allNodes
      recurse(depth, list) ==
        IF GreaterThanZero(depth)
        THEN getNestedEach(tree, list,
                           [allNodes |-> allNodes,
                            depth |-> Number(depth.v - 1)],
                           retList \o list)
        ELSE retList \o list
  IN recurse(depthOf(opts),
             IF Truthy(allNodes) THEN childNodes(tree, parent)
             ELSE children(tree, parent))

\* for (const child of children) getNested(child, nestOpts, retList)
getNestedEach(tree, list, nestOpts, retList) ==
  IF list = <<>> THEN retList
  ELSE getNestedEach(tree, Tail(list), nestOpts,
                     getNested(tree, Head(list), nestOpts, retList))

(***************************************************************************)
(* eventbuilder.trigger(target, event): one event object for all the       *)
(* targets, dispatched at each of them in turn.  event is an event name,   *)
(* from which the event is built once, or an event object.                 *)
(***************************************************************************)
buildEvent(type) == NewEvent(type, Null)

isEvent(event) == "native" \in DOMAIN event

\* the loop over the targets; the host sets the event's native target at
\* each dispatch, what listeners defined on the object stays on it
RECURSIVE triggerLoop(_, _, _, _)
triggerLoop(st, S0, targets, vr) ==
  IF targets = <<>> THEN st
  ELSE LET next(d) ==
             triggerLoop([L |-> d.L, ev |-> d.ev, log |-> st.log \o d.log],
                         S0, Tail(targets), vr)
       IN next(dispatchEvent(st.L, S0,
                             [st.ev EXCEPT !.native = Head(targets)], vr))

trigger(L, S0, targets, event, vr) ==
  triggerLoop([L |-> L,
               ev |-> IF isEvent(event) THEN event ELSE buildEvent(event),
               log |-> <<>>],
              S0, targets, vr)

(***************************************************************************)
(* onEvent(...args).  sid names the spec object the call builds.           *)
(***************************************************************************)
\* Variant of classifyArg in which a text argument that arrives after the
\* handler is taken as the selector: the result then depends on the order of
\* arguments of different kinds.
classifyArgOrderBug(opts, arg) ==
  IF isObj(arg)
  THEN IF instanceofElement(arg)
       THEN [opts EXCEPT !.target = arg]
       ELSE IF ~Truthy(opts.handle) /\ typeof(Get(arg, "handleEvent")) = F
       THEN [opts EXCEPT !.handle = arg]
       ELSE ObjectAssign(opts, arg)
  ELSE IF typeof(arg) = F
  THEN IF ~Truthy(opts.handle) THEN [opts EXCEPT !.handle = arg]
       ELSE IF ~Truthy(opts.selector) THEN [opts EXCEPT !.selector = arg]
       ELSE IF ~Truthy(opts.validate) THEN [opts EXCEPT !.validate = arg]
       ELSE opts
  ELSE IF typeof(arg) = S
  THEN IF ~Truthy(opts.event) /\ ~Truthy(opts.handle)
       THEN [opts EXCEPT !.event = arg]
       ELSE IF ~Truthy(opts.selector) THEN [opts EXCEPT !.selector = arg]
       ELSE opts
  ELSE opts

\* Variant of classifyArg in which a callable that arrives when handle,
\* selector and validate are set replaces the validator.
classifyArgLastValidate(opts, arg) ==
  IF isObj(arg)
  THEN IF instanceofElement(arg)
       THEN [opts EXCEPT !.target = arg]
       ELSE IF ~Truthy(opts.handle) /\ typeof(Get(arg, "handleEvent")) = F
       THEN [opts EXCEPT !.handle = arg]
       ELSE ObjectAssign(opts, arg)
  ELSE IF typeof(arg) = F
  THEN IF ~Truthy(opts.handle) THEN [opts EXCEPT !.handle = arg]
       ELSE IF ~Truthy(opts.selector) THEN [opts EXCEPT !.selector = arg]
       ELSE [opts EXCEPT !.validate = arg]
  ELSE IF typeof(arg) = S
  THEN IF ~Truthy(opts.event) THEN [opts EXCEPT !.event = arg]
       ELSE IF ~Truthy(opts.selector) THEN [opts EXCEPT !.selector = arg]
       ELSE opts
  ELSE opts

classifyArg(opts, arg) ==
  IF isObj(arg)
  THEN IF instanceofElement(arg)
       THEN [opts EXCEPT !.target = arg]
       ELSE IF ~Truthy(opts.handle) /\ typeof(Get(arg, "handleEvent")) = F
       THEN [opts EXCEPT !.handle = arg]
       ELSE ObjectAssign(opts, arg)
  ELSE IF typeof(arg) = F
  THEN IF ~Truthy(opts.handle) THEN [opts EXCEPT !.handle = arg]
       ELSE IF ~Truthy(opts.selector) THEN [opts EXCEPT !.selector = arg]
       ELSE IF ~Truthy(opts.validate) THEN [opts EXCEPT !.validate = arg]
       ELSE opts
  ELSE IF typeof(arg) = S
  THEN IF ~Truthy(opts.event) THEN [opts EXCEPT !.event = arg]
       ELSE IF ~Truthy(opts.selector) THEN [opts EXCEPT !.selector = arg]
       ELSE opts
  ELSE opts

RECURSIVE classify(_, _)
classify(opts, args) ==
  IF args = <<>> THEN opts
  ELSE classify(classifyArg(opts, Head(args)), Tail(args))

\* Variant of spec.off() that builds a new default options object instead of
\* reusing the one stored on the spec: the capture flag is lost.
specOffFreshOptions(L, o, sid) ==
  [L |-> removeEventListener(L, o.target.n, o.event, o.listener, Obj(NoProps)),
   threw |-> "",
   calls |-> <<HostCall("remove", o.target, o.event, o.listener,
                        Obj(NoProps), sid)>>]

\* Variant of spec.off() that throws when the listener is not attached.
specOffStrict(L, o, sid) ==
  IF \E i \in 1..Len(L) :
       SameEntry(L[i], o.target.n, o.event, o.listener, captureOf(o.opts))
  THEN [L |-> removeEventListener(L, o.target.n, o.event, o.listener,
                                  eventOptions(o, sid).opts),
        threw |-> "",
        calls |-> <<HostCall("remove", o.target, o.event, o.listener,
                             eventOptions(o, sid).opts, sid)>>]
  ELSE [L |-> L, threw |-> "not attached", calls |-> <<>>]

\* Variant of spec.off() that hands the host a copy of the stored options
\* record: the same values in another object.
specOffCopiedOptions(L, o, sid) ==
  [L |-> removeEventListener(L, o.target.n, o.event, o.listener,
                             Obj(PropsOf(eventOptions(o, sid).opts))),
   threw |-> "",
   calls |-> <<HostCall("remove", o.target, o.event, o.listener,
                        Obj(PropsOf(eventOptions(o, sid).opts)), sid)>>]

\* spec.off() of the spec sid: the table afterwards, the error thrown, if
\* any, and the host calls made
specOff(L, o, sid) ==
  [L |-> removeEventListener(L, o.target.n, o.event, o.listener,
                             eventOptions(o, sid).opts),
   threw |-> "",
   calls |-> <<HostCall("remove", o.target, o.event, o.listener,
                        eventOptions(o, sid).opts, sid)>>]

\* Variant of onEvent that delegates only for a selector: a registration
\* with a validator and no selector attaches the handler itself.
onEventSelectorOnly(L, args, sid) ==
  LET return(L2, o2, calls) ==
        [threw |-> "", L |-> L2,
         opts |-> IF o2.off = Bool(TRUE) THEN [o2 EXCEPT !.off = OffFn(sid)]
                  ELSE o2,
         calls |-> calls]
      delegated(o1, d) ==
        IF d.threw # ""
        THEN [threw |-> d.threw, L |-> d.L, opts |-> o1, calls |-> d.calls]
        ELSE return(d.L,
                    [d.opts EXCEPT !.listener = d.listener,
                                   !.delegated = d.listener],
                    d.calls)
      direct(o1, o2) ==
        IF o1.target.k # "node"
        THEN [threw |-> "TypeError", L |-> L, opts |-> o1, calls |-> <<>>]
        ELSE return(addEventListener(L, o1.target.n, o1.event, o1.handle,
                                     o2.opts, sid),
                    o2,
                    <<HostCall("add", o1.target, o1.event, o1.handle,
                               o2.opts, sid)>>)
      register(o1) ==
        IF Truthy(o1.selector)
        THEN delegated(o1, onDelegatedEvent(L, o1, sid))
        ELSE direct(o1, [eventOptions(o1, sid) EXCEPT !.listener = o1.handle])
  IN register(classify(NewOpts, args))

onEvent(L, args, sid) ==
  LET return(L2, o2, calls) ==
        [threw |-> "", L |-> L2,
         opts |-> IF o2.off = Bool(TRUE) THEN [o2 EXCEPT !.off = OffFn(sid)]
                  ELSE o2,
         calls |-> calls]
      delegated(o1, d) ==
        IF d.threw # ""
        THEN [threw |-> d.threw, L |-> d.L, opts |-> o1, calls |-> d.calls]
        ELSE return(d.L,
                    [d.opts EXCEPT !.listener = d.listener,
                                   !.delegated = d.listener],
                    d.calls)
      direct(o1, o2) ==
        IF o1.target.k # "node"
        THEN [threw |-> "TypeError", L |-> L, opts |-> o1, calls |-> <<>>]
        ELSE return(addEventListener(L, o1.target.n, o1.event, o1.handle,
                                     o2.opts, sid),
                    o2,
                    <<HostCall("add", o1.target, o1.event, o1.handle,
                               o2.opts, sid)>>)
      register(o1) ==
        IF Truthy(o1.selector) \/ Truthy(o1.validate)
        THEN delegated(o1, onDelegatedEvent(L, o1, sid))
        ELSE direct(o1, [eventOptions(o1, sid) EXCEPT !.listener = o1.handle])
  IN register(classify(NewOpts, args))

(***************************************************************************)
(* Text: String.prototype.trim and split(WSP), WSP = /\s+/.                *)
(***************************************************************************)
WSP == {" "}

RECURSIVE trimStart(_)
trimStart(s) ==
  IF s # <<>> /\ Head(s) \in WSP THEN trimStart(Tail(s)) ELSE s

trim(s) == Reverse(trimStart(Reverse(trimStart(s))))

RECURSIVE splitFrom(_, _)
splitFrom(s, cur) ==
  IF s = <<>> THEN <<cur>>
  ELSE IF Head(s) \in WSP THEN <<cur>> \o splitFrom(trimStart(s), <<>>)
  ELSE splitFrom(Tail(s), Append(cur, Head(s)))

split(s) == splitFrom(s, <<>>)

(***************************************************************************)
(* onEvents(...args).  Set and Map keep insertion order.                   *)
(***************************************************************************)
isContainer(v) == v.k = "nodelist"

isCollection(v) ==
  \/ isContainer(v)
  \/ (v.k = "arr" /\ \A i \in 1..Len(v.items) : v.items[i] \in Elements)

\* Variant of Set.add that keeps duplicates.
setAddAlways(set, x) == Append(set, x)

setAdd(set, x) ==
  IF \E i \in 1..Len(set) : set[i] = x THEN set ELSE Append(set, x)

RECURSIVE setAddAll(_, _)
setAddAll(set, xs) ==
  IF xs = <<>> THEN set ELSE setAddAll(setAdd(set, Head(xs)), Tail(xs))

\* Variant of batchArgs with opts at the beginning only.
batchArgsLeading(opts, allArgs) == <<opts>> \o allArgs

\* the arguments of one onEvent call: opts at the beginning and at the end
batchArgs(opts, allArgs) == <<opts>> \o allArgs \o <<opts>>

mapHas(map, key) == \E i \in 1..Len(map) : map[i].key = key

mapGet(map, key) ==
  LET i == CHOOSE i \in 1..Len(map) : map[i].key = key IN map[i].list

mapSet(map, key, list) ==
  IF mapHas(map, key)
  THEN [i \in 1..Len(map) |->
          IF map[i].key = key THEN [key |-> key, list |-> list] ELSE map[i]]
  ELSE Append(map, [key |-> key, list |-> list])

\* the three buckets of the first loop
RECURSIVE buckets(_, _)
buckets(b, args) ==
  IF args = <<>> THEN b
  ELSE LET arg == Head(args)
           b1 == IF instanceofElement(arg)
                 THEN [b EXCEPT !.targets = setAdd(@, arg)]
                 ELSE IF isCollection(arg)
                 THEN [b EXCEPT !.targets = setAddAll(@,
                         [i \in 1..Len(arg.items) |-> NodeV(arg.items[i])])]
                 ELSE IF typeof(arg) = S
                 THEN [b EXCEPT !.events = setAddAll(@,
                         LET enames == split(trim(arg.s))
                         IN [i \in 1..Len(enames) |-> Str(enames[i])])]
                 ELSE [b EXCEPT !.allArgs = Append(@, arg)]
       IN buckets(b1, Tail(args))

\* a spec object with the bookkeeping of the model: the arguments and the
\* number of the call that built it, whether onEvents built it, whether its
\* off() has been called, and the host calls made while it was built
mkSpec(o, args, call, batch, host) ==
  [o |-> o, args |-> args, call |-> call, batch |-> batch, offed |-> FALSE,
   host |-> host]

\* the inner loop: one target, the events still to register
RECURSIVE eventsLoop(_, _, _, _, _)
eventsLoop(st, target, events, allArgs, call) ==
  IF events = <<>> \/ st.threw # "" THEN st
  ELSE LET event == Head(events)
           sid == Len(st.S) + 1
           push(map1, args, edef) ==
             IF edef.threw # ""
             THEN [st EXCEPT !.threw = edef.threw, !.map = map1,
                             !.L = edef.L]
             ELSE [L |-> edef.L,
                   S |-> Append(st.S, mkSpec(edef.opts, args, call, TRUE,
                                            edef.calls)),
                   all |-> Append(st.all, sid),
                   tlist |-> Append(st.tlist, sid),
                   map |-> mapSet(map1, event, Append(mapGet(map1, event), sid)),
                   threw |-> ""]
           register(map1, args) == push(map1, args, onEvent(st.L, args, sid))
       IN eventsLoop(
            register(IF mapHas(st.map, event) THEN st.map
                     ELSE mapSet(st.map, event, <<>>),
                     batchArgs(Obj([target |-> target, event |-> event,
                                    off |-> Bool(TRUE)]),
                               allArgs)),
            target, Tail(events), allArgs, call)

RECURSIVE targetsLoop(_, _, _, _, _)
targetsLoop(st, targets, events, allArgs, call) ==
  IF targets = <<>> \/ st.threw # "" THEN st
  ELSE LET target == Head(targets)
           keep(st1) ==
             IF st1.threw # "" THEN st1
             ELSE [st1 EXCEPT !.map = mapSet(@, target, st1.tlist)]
       IN targetsLoop(keep(eventsLoop([st EXCEPT !.tlist = <<>>], target,
                                      events, allArgs, call)),
                      Tail(targets), events, allArgs, call)

onEvents(L, S0, args, call) ==
  LET register(b) ==
        targetsLoop([L |-> L, S |-> S0, all |-> <<>>, tlist |-> <<>>,
                     map |-> <<>>, threw |-> ""],
                    b.targets, b.events, b.allArgs, call)
  IN register(buckets([targets |-> <<>>, events |-> <<>>, allArgs |-> <<>>],
                      args))

\* reg.for(what): map.get(what), an array or undefined
regFor(r, what) ==
  IF mapHas(r.map, what) THEN Arr(mapGet(r.map, what)) ELSE Undef

(***************************************************************************)
(* onEvents__off, the off method of a MultiReg.                            *)
(***************************************************************************)
\* def.off() for each def of list, in order
RECURSIVE offEach(_, _, _)
offEach(st, list, S0) ==
  IF list = <<>> \/ st.threw # "" THEN st
  ELSE LET off(r) == [L |-> r.L, done |-> st.done \cup {Head(list)},
                       threw |-> r.threw, calls |-> st.calls \o r.calls]
       IN offEach(off(specOff(st.L, S0[Head(list)].o, Head(list))),
                  Tail(list), S0)

\* Variant of the loop over the arguments of off in which an unknown key
\* removes every listener of the MultiReg.
RECURSIVE offArgsUnknownAll(_, _, _, _)
offArgsUnknownAll(st, r, args, S0) ==
  IF args = <<>> \/ st.threw # "" THEN st
  ELSE offArgsUnknownAll(IF mapHas(r.map, Head(args))
                         THEN offEach(st, mapGet(r.map, Head(args)), S0)
                         ELSE offEach(st, r.all, S0),
                         r, Tail(args), S0)

RECURSIVE offArgs(_, _, _, _)
offArgs(st, r, args, S0) ==
  IF args = <<>> \/ st.threw # "" THEN st
  ELSE offArgs(IF mapHas(r.map, Head(args))
               THEN offEach(st, mapGet(r.map, Head(args)), S0)
               ELSE st,
               r, Tail(args), S0)

\* Variant of reg.off that drops the registrations it detached from the
\* registry: from the flat sequence and from every list of the map.
onEvents__offPruning(L, r, args, S0) ==
  LET kept(list, done) == SelectSeq(list, LAMBDA sid : sid \notin done)
      after(st) ==
        [L |-> st.L, done |-> st.done, threw |-> st.threw, calls |-> st.calls,
         reg |-> [r EXCEPT !.all = kept(r.all, st.done),
                           !.map = [i \in 1..Len(r.map) |->
                                      [key |-> r.map[i].key,
                                       list |-> kept(r.map[i].list, st.done)]]]]
  IN after(IF Len(args) > 0
           THEN offArgs([L |-> L, done |-> {}, threw |-> "", calls |-> <<>>],
                        r, args, S0)
           ELSE offEach([L |-> L, done |-> {}, threw |-> "", calls |-> <<>>],
                        r.all, S0))

\* reg.off(...args) on the registry r: the host table, the specs whose off()
\* ran, the host calls made, and the registry afterwards
onEvents__off(L, r, args, S0) ==
  LET after(st) ==
        [L |-> st.L, done |-> st.done, threw |-> st.threw, calls |-> st.calls,
         reg |-> r]
  IN after(IF Len(args) > 0
           THEN offArgs([L |-> L, done |-> {}, threw |-> "", calls |-> <<>>],
                        r, args, S0)
           ELSE offEach([L |-> L, done |-> {}, threw |-> "", calls |-> <<>>],
                        r.all, S0))

(***************************************************************************)
(* The state machine.                                                      *)
(***************************************************************************)
NoEvent == NewEvent(Undef, Null)

\* the latest operation: its name, the error it threw, the spec or MultiReg
\* it was called on, the arguments given to onEvent, onEvents or reg.off, the
\* specs whose off() it called, whether all of those had their off() called
\* by the operation just before it, and the calls of host primitives it made
Op(op, threw, sid, reg, keys, done, again, host) ==
  [op |-> op, threw |-> threw, sid |-> sid, reg |-> reg, keys |-> keys,
   done |-> done, again |-> again, host |-> host]

Init ==
  /\ listeners = <<>>
  /\ specs = <<>>
  /\ regs = <<>>
  /\ ev = NoEvent
  /\ log = <<>>
  /\ last = Op("init", "", 0, 0, <<>>, {}, FALSE, <<>>)
  /\ doc = NoDoc
  /\ ret = Undef

Max(set) == CHOOSE x \in set : \A y \in set : y <= x

\* registration calls made so far
NCalls ==
  Max({0} \cup {specs[i].call : i \in 1..Len(specs)}
          \cup {regs[i].call : i \in 1..Len(regs)})

\* the caller holds the spec: onEvent returned it, or onEvents returned the
\* MultiReg that lists it
Held(sid) ==
  \/ ~specs[sid].batch
  \/ \E i \in 1..Len(regs) : regs[i].call = specs[sid].call

markOffed(S0, done) ==
  [i \in 1..Len(S0) |-> IF i \in done THEN [S0[i] EXCEPT !.offed = TRUE]
                        ELSE S0[i]]

\* a call of onEvent(...args)
OnEvent(args) ==
  /\ UNCHANGED <<doc, ret>>
  /\ NCalls < MaxCalls
  /\ \E r \in {onEvent(listeners, args, Len(specs) + 1)} :
       IF r.threw # ""
       THEN /\ listeners' = r.L
            /\ specs' = specs
            /\ last' = Op("onEvent", r.threw, 0, 0, args, {}, FALSE, r.calls)
       ELSE /\ listeners' = r.L
            /\ specs' = Append(specs, mkSpec(r.opts, args, NCalls + 1, FALSE,
                                            r.calls))
            /\ last' = Op("onEvent", "", Len(specs) + 1, 0, args, {}, FALSE,
                          r.calls)
  /\ UNCHANGED regs
  /\ ev' = NoEvent /\ log' = <<>>

\* a call of onEvents(...args)
OnEvents(args) ==
  /\ UNCHANGED <<doc, ret>>
  /\ NCalls < MaxCalls
  /\ Len(regs) < MaxRegs
  /\ \E r \in {onEvents(listeners, specs, args, NCalls + 1)} :
       /\ listeners' = r.L
       /\ specs' = r.S
       /\ IF r.threw # ""
          THEN /\ regs' = regs
               /\ last' = Op("onEvents", r.threw, 0, 0, args, {}, FALSE,
                              <<>>)
          ELSE /\ regs' = Append(regs, [all |-> r.all, map |-> r.map,
                                        args |-> args, call |-> NCalls + 1,
                                        offAll |-> FALSE])
               /\ last' = Op("onEvents", "", 0, Len(regs) + 1, args, {}, FALSE,
                              <<>>)
  /\ ev' = NoEvent /\ log' = <<>>

\* a call of spec.off() on a spec the caller holds
SpecOff(sid) ==
  /\ UNCHANGED <<doc, ret>>
  /\ sid \in 1..Len(specs)
  /\ Held(sid)
  /\ typeof(specs[sid].o.off) = F
  /\ \E r \in {specOff(listeners, specs[sid].o, sid)} :
       /\ listeners' = r.L
       /\ last' = Op("off", r.threw, sid, 0, <<>>, {sid}, sid \in last.done,
                     r.calls)
  /\ specs' = markOffed(specs, {sid})
  /\ UNCHANGED regs
  /\ ev' = NoEvent /\ log' = <<>>

\* a call of reg.off(...keys)
RegOff(i, keys) ==
  /\ UNCHANGED <<doc, ret>>
  /\ i \in 1..Len(regs)
  /\ \E r \in {onEvents__off(listeners, regs[i], keys, specs)} :
       /\ listeners' = r.L
       /\ specs' = markOffed(specs, r.done)
       /\ last' = Op("regoff", r.threw, 0, i, keys, r.done,
                     r.done # {} /\ r.done \subseteq last.done, r.calls)
       /\ regs' = [regs EXCEPT ![i] = [r.reg EXCEPT !.offAll = @ \/ keys = <<>>]]
  /\ ev' = NoEvent /\ log' = <<>>

\* the host dispatches a new event of the given type at node n; vr gives
\* what each validator function answers for this event
Dispatch(n, type, vr) ==
  /\ UNCHANGED <<doc, ret>>
  /\ listeners # <<>>
  /\ \E d \in {dispatchEvent(listeners, specs, NewEvent(type, n), vr)} :
       /\ listeners' = d.L
       /\ ev' = d.ev
       /\ log' = d.log
  /\ last' = Op("dispatch", "", 0, 0, <<>>, {}, FALSE, <<>>)
  /\ UNCHANGED <<specs, regs>>

\* a call of trigger(targets, event): event is an event name or the event
\* object of an earlier call
Trigger(targets, event, vr) ==
  /\ UNCHANGED <<doc, ret>>
  /\ listeners # <<>>
  /\ \E d \in {trigger(listeners, specs, targets, event, vr)} :
       /\ listeners' = d.L
       /\ ev' = d.ev
       /\ log' = d.log
  /\ last' = Op("trigger", "", 0, 0, <<>>, {}, FALSE, <<>>)
  /\ UNCHANGED <<specs, regs>>

\* a call of getNested(parent, opts) on the parent of the tree
GetNested(opts) ==
  /\ ret' = Arr(getNested(doc, 0, opts, <<>>))
  /\ last' = Op("getNested", "", 0, 0, <<opts>>, {}, FALSE, <<>>)
  /\ UNCHANGED <<listeners, specs, regs, ev, log, doc>>

(***************************************************************************)
(* Inputs.                                                                 *)
(***************************************************************************)
Validators == {"v1"}
Answers == [Validators -> BOOLEAN]

click == Str(<<"c">>)
keydown == Str(<<"k">>)
EventTypes == {click, keydown}

OffOpt == Obj([off |-> Bool(TRUE)])
HandlerObj == Obj([handleEvent |-> Fn("he")])

\* the onEvent calls of the delegation specification
SingleCalls ==
  { <<NodeV("root"), click, Fn("h1"), Str(<<"L">>), OffOpt>>,
    <<NodeV("root"), click, Str(<<"M">>), Fn("h1"), OffOpt>>,
    <<Fn("h2"), NodeV("root"), click, Str(<<"R">>), OffOpt>>,
    <<NodeV("mid"), click, Fn("h1"), Str(<<"R">>), OffOpt>>,
    <<NodeV("root"), click, Fn("h1"), Str(<<"R">>),
      Obj([capture |-> Bool(TRUE), off |-> Bool(TRUE)])>>,
    <<NodeV("root"), click, Fn("h1"), Fn("selM"), OffOpt>>,
    <<NodeV("root"), click, Fn("h1"), Str(<<"L">>), Fn("v1"), OffOpt>>,
    <<NodeV("root"), click, Fn("h1"),
      Obj([validate |-> Fn("v1"), off |-> Bool(TRUE)])>>,
    <<NodeV("root"), click, Fn("h1"), OffOpt>>,
    <<NodeV("root"), click, HandlerObj, Str(<<"L">>), OffOpt>>,
    <<NodeV("root"), click, Fn("h1"), Str(<<"L">>), Fn("v1"),
      Obj([once |-> Bool(TRUE), off |-> Bool(TRUE)])>>,
    <<NodeV("root"), click, Fn("h1"),
      Obj([opts |-> Obj([capture |-> Bool(TRUE)]), off |-> Bool(TRUE)])>>,
    <<NodeV("txt"), click, Fn("h1"), Str(<<"L">>), OffOpt>>,
    <<click, Fn("h1"),
      Obj([target |-> NodeV("txt"), validate |-> Fn("v1")])>> }

\* where the delegation specification dispatches events
SingleNodes == {"leaf", "mid", "root", "txt"}

Perms3(a, b, c) ==
  {<<a, b, c>>, <<a, c, b>>, <<b, a, c>>, <<b, c, a>>, <<c, a, b>>, <<c, b, a>>}

\* the onEvent calls of the classifier specification: a target, a handler
\* and an event name in every order
ArgCalls ==
  UNION {Perms3(NodeV(t), Fn(h), e) :
           t \in {"root", "mid"}, h \in {"h1", "h2"}, e \in EventTypes}

\* more onEvent calls of the classifier specification: several arguments of
\* one kind
MixedCalls ==
  { <<NodeV("root"), click, Str(<<"L">>), Fn("h1")>>,
    <<NodeV("root"), click, Fn("h1"),
      Obj([handleEvent |-> Fn("he"), event |-> Str(<<"y">>)])>>,
    <<NodeV("root"), click, HandlerObj, Obj([handleEvent |-> Fn("he")])>>,
    <<NodeV("root"), Fn("h1"), Fn("selL"), click, Fn("v1"), Fn("h2")>>,
    <<NodeV("root"), click, Str(<<"L">>), Fn("h1"), Fn("selM")>>,
    <<NodeV("root"), Fn("h1"), Fn("selL"), Fn("v1"), click>>,
    <<NodeV("root"), NodeV("mid"), click, Fn("h1")>> }

\* the onEvents calls of the batch specification
BatchCalls ==
  { <<Str(<<" ", "k", " ", " ", "c", " ">>), Arr(<<"root", "side">>),
      NodeV("root"), click, Fn("h1")>>,
    <<NodeV("root"), click, Fn("h1"),
      Obj([target |-> NodeV("leaf"), event |-> Str(<<"x">>),
           off |-> Bool(FALSE), capture |-> Bool(TRUE)]),
      Obj([handleEvent |-> Fn("he"), target |-> NodeV("mid"),
           event |-> Str(<<"y">>), off |-> Num])>>,
    <<NodeV("root"), NodeV("mid"), click, Fn("h1"),
      Obj([selector |-> Str(<<"L">>)])>>,
    <<NodeList(<<"leaf", "txt">>), click, Fn("h1")>> }

\* onEvents calls that register for a part of their arguments only: no
\* target, no event name, a target that cannot take a delegated listener
PartialCalls ==
  { <<click, Fn("h1")>>,
    <<NodeV("root"), Fn("h1")>>,
    <<NodeV("root"), Str(<<" ">>), click, Fn("h1")>>,
    <<NodeList(<<"leaf", "txt">>), click, Fn("h1"),
      Obj([selector |-> Str(<<"L">>)])>>,
    <<Arr(<<"root", "side">>), Str(<<"k", " ", "c">>), Fn("h1")>> }

\* the onEvent calls of the batch specification
BatchSingles ==
  { <<NodeV("root"), click, Fn("h1"), OffOpt>> }

\* the argument lists of reg.off
KeyLists ==
  { <<>>,
    <<NodeV("root")>>,
    <<click>>,
    <<NodeV("root"), keydown>>,
    <<Str(<<"x">>), NodeV("side")>> }

\* where the batch specification dispatches events
BatchNodes == {"leaf", "side"}

Next ==
  \/ \E args \in SingleCalls : OnEvent(args)
  \/ \E sid \in 1..Len(specs) : SpecOff(sid)
  \/ \E n \in SingleNodes, vr \in Answers : Dispatch(n, click, vr)

Spec == Init /\ [][Next]_vars

NextBatch ==
  \/ \E args \in BatchCalls : OnEvents(args)
  \/ \E args \in BatchSingles : OnEvent(args)
  \/ \E sid \in 1..Len(specs) : SpecOff(sid)
  \/ \E i \in 1..Len(regs), keys \in KeyLists : RegOff(i, keys)
  \/ \E n \in BatchNodes, type \in EventTypes :
       Dispatch(n, type, [v \in Validators |-> TRUE])

SpecBatch == Init /\ [][NextBatch]_vars

NextArgs ==
  \/ \E args \in ArgCalls : Len(specs) < MaxArgCalls /\ OnEvent(args)
  \/ \E args \in MixedCalls : Len(specs) < MaxArgCalls /\ OnEvent(args)
  \/ \E type \in EventTypes, vr \in Answers : Dispatch("leaf", type, vr)

SpecArgs == Init /\ [][NextArgs]_vars

NextPartial ==
  \/ \E args \in PartialCalls : OnEvents(args)
  \/ \E i \in 1..Len(regs), keys \in KeyLists : RegOff(i, keys)
  \/ \E n \in BatchNodes, type \in EventTypes :
       Dispatch(n, type, [v \in Validators |-> TRUE])

SpecPartial == Init /\ [][NextPartial]_vars

\* the trees and the options of the getNested specification
Trees ==
  {[parent |-> p, text |-> t] :
     p \in {q \in [1..MaxNodes -> 0..(MaxNodes - 1)] :
              \A i \in 1..MaxNodes : q[i] < i},
     t \in {{}, {MaxNodes}}}

NestedOpts ==
  {[allNodes |-> a, depth |-> d] :
     a \in {Undef, Bool(TRUE)},
     d \in {Undef} \cup {Number(i) : i \in 0..MaxDepth}}

InitNested ==
  /\ listeners = <<>>
  /\ specs = <<>>
  /\ regs = <<>>
  /\ ev = NoEvent
  /\ log = <<>>
  /\ last = Op("init", "", 0, 0, <<>>, {}, FALSE, <<>>)
  /\ doc \in Trees
  /\ ret = Undef

NextNested == \E opts \in NestedOpts : GetNested(opts)

SpecNested == InitNested /\ [][NextNested]_vars

\* the registrations and the target lists of the trigger specification
TriggerCalls ==
  { <<NodeV("root"), click, Fn("h1"), Str(<<"M">>)>>,
    <<NodeV("root"), click, Fn("h1"), Str(<<"L">>)>>,
    <<NodeV("root"), click, Fn("h2"), Fn("v1"), Str(<<"R">>)>>,
    <<NodeV("mid"), click, Fn("h2")>>,
    <<NodeV("root"), keydown, Fn("h1"), Str(<<"L">>)>>,
    <<NodeV("root"), click, Fn("h1"), Obj([selector |-> Num])>> }

TriggerTargets ==
  { <<"leaf", "side">>, <<"side", "leaf">>, <<"leaf", "mid">>, <<"root">> }

NextTrigger ==
  \/ \E args \in TriggerCalls : OnEvent(args)
  \/ \E targets \in TriggerTargets, type \in EventTypes, vr \in Answers :
       Trigger(targets, type, vr)
  \/ \E targets \in TriggerTargets, vr \in Answers :
       ev # NoEvent /\ Trigger(targets, ev, vr)

SpecTrigger == Init /\ [][NextTrigger]_vars

(***************************************************************************)
(* Properties of the delegation listener.                                  *)
(***************************************************************************)
\* the nodes from n up to root, when n is inside the subtree of root
Chain(n, root) ==
  {m \in Elements :
     /\ \E i \in 1..Len(pathOf(n)) : pathOf(n)[i] = m
     /\ \E i \in 1..Len(pathOf(m)) : pathOf(m)[i] = root}

InSubtree(n, root) == \E i \in 1..Len(pathOf(n)) : pathOf(n)[i] = root

\* node n passes the selector of spec object o
Passes(o, n) ==
  IF typeof(o.selector) = S THEN matches(n, o.selector.s)
  ELSE typeof(o.selector) = F /\ n \in FnSelSet(o.selector.id)

PassingOnChain(o, n) == {m \in Chain(n, o.target.n) : Passes(o, m)}

\* the passing node nearest to n: every other passing node is above it
FirstPassing(o, n) ==
  CHOOSE p \in PassingOnChain(o, n) :
    \A q \in PassingOnChain(o, n) : InSubtree(p, q)

\* the runs of delegation listeners in the latest dispatch
Runs == {i \in 1..Len(log) : log[i].kind = "delegated"}

HandlerCalls(sid) ==
  Cardinality({i \in Runs : log[i].sid = sid /\ log[i].how # "none"})

\* C1: for a registration with a selector whose validator, if any, accepted
\* the event, a dispatch at an element n inside the root's subtree invokes
\* the handler exactly once, with the first node of the chain n .. root that
\* passes the selector as delegate, when some node of the chain passes, and
\* does not invoke it when none passes.
C1_DelegateIsFirstPassing ==
  \A i \in Runs :
    LET r == log[i]
        o == specs[r.sid].o
    IN (selt(o) # 0 /\ r.vok /\ r.native \in Elements) =>
         IF PassingOnChain(o, r.native) # {}
         THEN /\ HandlerCalls(r.sid) = 1
              /\ r.how # "none"
              /\ r.delegate = FirstPassing(o, r.native)
         ELSE HandlerCalls(r.sid) = 0

\* C2: when a delegation listener invokes the handler, the event the handler
\* sees has originalTarget = the native target and target = the delegate if
\* the delegate is not the native target; otherwise no originalTarget is
\* added and target is unchanged.
C2_EventSeenByHandler ==
  \A i \in Runs :
    LET r == log[i]
    IN r.how # "none" =>
         IF r.delegate # r.native
         THEN r.evOriginal = r.native /\ r.evTarget = r.delegate
         ELSE r.evOriginal = r.origBefore /\ r.evTarget = r.start

\* C10: the delegate walk never goes above the attachment root: the selector
\* is never tried on a node outside the root's subtree and no such node is
\* chosen as delegate.
C10_WalkStaysBelowRoot ==
  \A i \in Runs :
    LET r == log[i]
        root == specs[r.sid].o.target.n
    IN /\ \A j \in 1..Len(r.tested) : InSubtree(r.tested[j].cand, root)
       /\ (r.delegate \in Elements => InSubtree(r.delegate, root))

\* C25: a delegation listener that runs after another listener of the same
\* dispatch remapped the target still starts its walk at the native target:
\* the first candidate it tests is the native target.
C25_SecondWalkStartsAtNative ==
  \A j \in Runs :
    LET r == log[j]
    IN (/\ selt(specs[r.sid].o) # 0
        /\ r.vok
        /\ \E i \in Runs : i < j /\ log[i].remapped) =>
         /\ r.start = r.native
         /\ r.tested # <<>>
         /\ r.tested[1].cand = r.native

\* C26: a listener that resolved a delegate invokes the handler once: a
\* callable with the delegate as receiver and the arguments (event, spec),
\* a handler object through handleEvent with the same two arguments; spec
\* is the object the registering onEvent call returned.
C26_HandlerInvocation ==
  \A i \in Runs :
    LET r == log[i]
        handle == specs[r.sid].o.handle
    IN r.delegate \in Elements =>
         /\ typeof(handle) = F =>
               /\ r.how = "call"
               /\ r.receiver = r.delegate
               /\ r.passed = <<EventArg, SpecArg(r.sid)>>
         /\ (isObj(handle) /\ typeof(Get(handle, "handleEvent")) = F) =>
               /\ r.how = "handleEvent"
               /\ r.passed = <<EventArg, SpecArg(r.sid)>>
         /\ Cardinality({j \in Runs : log[j].sid = r.sid}) = 1

C26_Witness ==
  /\ Len(log) = 2
  /\ log[1].how = "call" /\ log[1].receiver = "leaf" /\ log[1].this = "root"
  /\ log[2].how = "handleEvent" /\ log[2].delegate = "leaf"
  /\ log[2].passed = <<EventArg, SpecArg(2)>>

\* C30: a listener with a validator and no selector, whose validator
\* accepted the event, invokes the handler with the attachment root as
\* delegate; when the native target lies below the root the handler sees
\* target = the root and originalTarget = the native target.
C30_ValidatorOnlyDelegatesToRoot ==
  \A i \in Runs :
    LET r == log[i]
        o == specs[r.sid].o
    IN (r.validated /\ r.vok /\ ~Truthy(o.selector)) =>
         /\ r.how # "none"
         /\ r.delegate = o.target.n
         /\ (r.native # o.target.n /\ InSubtree(r.native, o.target.n)) =>
               /\ r.evTarget = o.target.n
               /\ r.evOriginal = r.native

\* C7: a validator answering falsy suppresses the handler for that dispatch
\* only: after the dispatch the listener is still attached, so that a later
\* dispatch the validator accepts reaches the handler.
C7_VetoKeepsListener ==
  last.op = "dispatch" =>
    \A i \in Runs :
      (log[i].validated /\ ~log[i].vok) =>
         /\ log[i].how = "none"
         /\ \E j \in 1..Len(listeners) :
               listeners[j].callback = ListenerFn(log[i].sid)

\* C13: a call of onEvent that takes the delegation path (a selector or a
\* validator is set) with a target that is no Element throws the
\* invalid-target error, calls no host primitive and leaves the listener
\* table as it was.
C13_InvalidTargetAttachesNothing ==
  [][last'.op = "onEvent" =>
       LET o == classify(NewOpts, last'.keys)
       IN ((Truthy(o.selector) \/ Truthy(o.validate))
           /\ ~instanceofElement(o.target)) =>
            /\ last'.threw = "Invalid parent element"
            /\ last'.host = <<>>
            /\ listeners' = listeners
            /\ specs' = specs]_vars

C13_Witness ==
  /\ last.op = "onEvent"
  /\ last.threw = "Invalid parent element"
  /\ classify(NewOpts, last.keys).target = NodeV("txt")
  /\ \E i \in 1..Len(listeners) : listeners[i].target = "root"

\* C14: every call of removeEventListener made by spec.off passes the
\* options record that the registration passed to addEventListener, the same
\* object and so the same capture, once, passive and signal.
C14_SameOptionsRecord ==
  last.op = "off" =>
    /\ Len(last.host) = 1
    /\ \A i \in 1..Len(last.host) :
         LET c == last.host[i]
             a == specs[c.by].host
         IN /\ c.prim = "remove"
            /\ Len(a) = 1
            /\ a[1].prim = "add"
            /\ c.lo = a[1].lo
            /\ c.lo = specs[c.by].o.opts

C14_Witness ==
  /\ last.op = "off"
  /\ captureOf(last.host[1].lo)
  /\ specs[last.sid].o.listener.k = "listener"
  /\ \E sid \in 1..Len(specs) :
       /\ specs[sid].offed
       /\ specs[sid].o.listener.k = "fn"
       /\ specs[sid].o.opts = Obj([capture |-> Bool(TRUE)])

\* C17: an onEvent call that returned made one call of addEventListener, on
\* the spec's target, for the spec's event name, with the spec's listener:
\* the handler itself when neither a selector nor a validator is set, the
\* delegation listener of the registration otherwise.
C17_OneAttachPerCall ==
  \A sid \in 1..Len(specs) :
    LET o == specs[sid].o
        h == specs[sid].host
    IN /\ Len(h) = 1
       /\ h[1].prim = "add"
       /\ h[1].target = o.target
       /\ h[1].type = o.event
       /\ h[1].callback = o.listener
       /\ h[1].by = sid
       /\ o.listener = IF Truthy(o.selector) \/ Truthy(o.validate)
                       THEN ListenerFn(sid) ELSE o.handle

C17_Witness ==
  /\ last.op = "onEvent"
  /\ last.threw = ""
  /\ Len(specs) = 2
  /\ specs[1].o.listener = Fn("h1")
  /\ specs[2].o.listener = ListenerFn(2)
  /\ ~Truthy(specs[2].o.selector)
  /\ last.host = specs[2].host

\* C22: a listener whose validator answered falsy evaluated its selector on
\* no candidate, invoked no handler and left the event as it found it:
\* target, originalTarget and captureTarget are those before the listener.
C22_VetoTouchesNothing ==
  \A i \in 1..Len(log) :
    (log[i].kind = "delegated" /\ log[i].validated /\ ~log[i].vok) =>
      /\ log[i].tested = <<>>
      /\ log[i].delegate = Null
      /\ log[i].how = "none"
      /\ ~log[i].remapped
      /\ log[i].evTarget = log[i].start
      /\ log[i].evOriginal = log[i].origBefore
      /\ log[i].evCapture = IF i = 1 THEN Null ELSE log[i - 1].evCapture
      /\ (Len(log) = 1 => ev = NewEvent(ev.type, ev.native))

C22_Witness ==
  /\ Len(log) = 2
  /\ log[1].kind = "delegated" /\ log[1].remapped
  /\ log[2].kind = "delegated" /\ log[2].validated /\ ~log[2].vok
  /\ selt(specs[log[2].sid].o) = SS
  /\ log[2].evCapture = "root"
  /\ log[2].evOriginal = "leaf"

\* C16: every call of a callable selector during a dispatch, on the native
\* target and on each ancestor tried after it, is given the event being
\* dispatched as its second argument.
C16_SelectorGetsEvent ==
  \A i \in 1..Len(log) :
    (log[i].kind = "delegated" /\ selt(specs[log[i].sid].o) = SF) =>
      \A j \in 1..Len(log[i].tested) : log[i].tested[j].evGiven

(***************************************************************************)
(* Properties of onEvents and of off.                                      *)
(***************************************************************************)
Range(seq) == {seq[i] : i \in 1..Len(seq)}

RECURSIVE Flat(_)
Flat(seqs) == IF seqs = <<>> THEN <<>> ELSE Head(seqs) \o Flat(Tail(seqs))

\* the elements of seq in order of first occurrence
FirstSeen(seq) ==
  LET keep == {i \in 1..Len(seq) : \A j \in 1..(i - 1) : seq[j] # seq[i]}
      pos(n) == CHOOSE i \in keep : Cardinality({j \in keep : j < i}) = n - 1
  IN [n \in 1..Cardinality(keep) |-> seq[pos(n)]]

\* the targets named by the arguments of an onEvents call, one by one
TargetsGiven(args) ==
  Flat([i \in 1..Len(args) |->
          IF instanceofElement(args[i]) THEN <<args[i]>>
          ELSE IF isCollection(args[i])
               THEN [j \in 1..Len(args[i].items) |-> NodeV(args[i].items[j])]
               ELSE <<>>])

\* the event names given by the text arguments, as String.split yields them
NamesGiven(args) ==
  Flat([i \in 1..Len(args) |->
          IF typeof(args[i]) = S
          THEN LET names == split(trim(args[i].s))
               IN [j \in 1..Len(names) |-> Str(names[j])]
          ELSE <<>>])

\* the host has a listener registered for the spec
AttachedIn(L, sid) == \E j \in 1..Len(L) : sid \in L[j].owners
Attached(sid) == AttachedIn(listeners, sid)

\* C3: onEvents creates exactly one registration for each pair of the
\* deduplicated targets and the deduplicated event names, and no others;
\* `all` lists them target-major, both in first-seen order.
C3_BatchIsCrossProduct ==
  \A i \in 1..Len(regs) :
    LET r == regs[i]
        T == FirstSeen(TargetsGiven(r.args))
        E == FirstSeen(NamesGiven(r.args))
    IN /\ Len(r.all) = Len(T) * Len(E)
       /\ \A t \in 1..Len(T), e \in 1..Len(E) :
            LET o == specs[r.all[(t - 1) * Len(E) + e]].o
            IN o.target = T[t] /\ o.event = E[e]
       /\ Range(r.all) = {sid \in 1..Len(specs) : specs[sid].call = r.call}
       /\ Cardinality(Range(r.all)) = Len(r.all)

C3_Witness ==
  \E i \in 1..Len(regs) :
    /\ Len(regs[i].all) = 4
    /\ Len(TargetsGiven(regs[i].args)) > 2
    /\ Len(NamesGiven(regs[i].args)) > 2

\* the spec has one of the keys as target or as event name
KeyedBy(sid, keys) ==
  \E k \in 1..Len(keys) :
    keys[k] = specs[sid].o.target \/ keys[k] = specs[sid].o.event

\* C4: reg.off(k1, ..., kn) with at least one argument detaches exactly the
\* registrations of the batch whose target or event name is one of the keys;
\* the others are attached afterwards as they were before; unknown keys
\* detach nothing and raise no error.
C4_OffByKey ==
  [][(last'.op = "regoff" /\ Len(last'.keys) > 0) =>
       /\ last'.threw = ""
       /\ \A sid \in Range(regs[last'.reg].all) :
            IF KeyedBy(sid, last'.keys)
            THEN ~AttachedIn(listeners', sid)
            ELSE AttachedIn(listeners', sid) = AttachedIn(listeners, sid)]_vars

C4_Witness ==
  /\ last.op = "regoff"
  /\ Len(last.keys) > 1
  /\ last.done # {}
  /\ \E sid \in Range(regs[last.reg].all) : sid \notin last.done /\ Attached(sid)
  /\ \E k \in 1..Len(last.keys) : ~mapHas(regs[last.reg].map, last.keys[k])

\* C5: after reg.off() without arguments every registration of the batch is
\* detached, and no later dispatch invokes a listener on its behalf.
C5_OffAllDetaches ==
  \A i \in 1..Len(regs) :
    regs[i].offAll =>
      \A sid \in Range(regs[i].all) :
        /\ ~Attached(sid)
        /\ (last.op = "dispatch" =>
              \A j \in 1..Len(log) : sid \notin log[j].owners)

C5_Witness ==
  \E i \in 1..Len(regs) :
    /\ regs[i].offAll
    /\ last.op = "dispatch"
    /\ log # <<>>
    /\ \E sid \in Range(regs[i].all) :
         /\ InSubtree(ev.native, specs[sid].o.target.n)
         /\ specs[sid].o.event = ev.type
         /\ captureOf(specs[sid].o.opts)

\* C6: calling spec.off or reg.off again on registrations the call before
\* already detached raises no error and leaves the listener table as it was.
C6_OffTwice ==
  [][(last'.op \in {"off", "regoff"} /\ last'.again) =>
       (listeners' = listeners /\ last'.threw = "")]_vars

C6_Witness ==
  /\ last.op = "off"
  /\ last.again
  /\ specs[last.sid].offed
  /\ listeners # <<>>

\* C9: every spec built by onEvents has the target and the event name of its
\* own pair, whatever the pass-through arguments carry, and a callable off.
C9_ReservedKeysWin ==
  \A sid \in 1..Len(specs) :
    specs[sid].batch =>
      LET a == specs[sid].args
          o == specs[sid].o
      IN /\ o.target = Get(a[1], "target")
         /\ o.event = Get(a[1], "event")
         /\ typeof(o.off) = F
         /\ o.off = OffFn(sid)

C9_Witness ==
  \E sid \in 1..Len(specs) :
    /\ specs[sid].batch
    /\ \E j \in 2..(Len(specs[sid].args) - 1) :
         LET a == specs[sid].args[j]
         IN /\ Get(a, "target") \notin {Undef, specs[sid].o.target}
            /\ Get(a, "event") \notin {Undef, specs[sid].o.event}
            /\ Get(a, "off") \notin {Undef, Bool(TRUE)}

\* keys a caller may ask reg.for about
ProbeKeys ==
  {NodeV(n) : n \in Nodes} \cup {click, keydown, Str(<<"x">>), Str(<<>>)}

\* the specs of the flat sequence of r that have key as target or event
Involving(r, key) ==
  SelectSeq(r.all, LAMBDA sid : specs[sid].o.target = key
                                 \/ specs[sid].o.event = key)

\* C11: for every target and every event name supplied to onEvents,
\* reg.for(key) is the sequence of the registrations of reg.all that have the
\* key as target or as event name, in the order of reg.all; for every other
\* key it is undefined.
C11_ForGivesSubsequence ==
  \A i \in 1..Len(regs) :
    LET r == regs[i]
        given == Range(TargetsGiven(r.args)) \cup Range(NamesGiven(r.args))
    IN /\ \A key \in given : regFor(r, key) = Arr(Involving(r, key))
       /\ \A key \in ProbeKeys \ given : regFor(r, key) = Undef

(***************************************************************************)
(* Properties of the argument classifier.                                  *)
(***************************************************************************)
\* the arguments are one element, one function and one text, in some order
IsTriple(args) ==
  /\ Len(args) = 3
  /\ \E i \in 1..3 : instanceofElement(args[i])
  /\ \E i \in 1..3 : args[i].k = "fn"
  /\ \E i \in 1..3 : args[i].k = "str"

\* C8: for one target, one handler function and one event name given
\* positionally, all six orders of the arguments resolve to the same spec
\* (target, event, handle, listener) and attach the same listener to the
\* same target for the same event.
C8_OrderOfKindsIrrelevant ==
  \A sid \in 1..Len(specs) :
    LET a == specs[sid].args
        o == specs[sid].o
    IN IsTriple(a) =>
         /\ \E i \in 1..3 : o.target = a[i] /\ instanceofElement(a[i])
         /\ \E i \in 1..3 : o.event = a[i] /\ a[i].k = "str"
         /\ \E i \in 1..3 : o.handle = a[i] /\ a[i].k = "fn"
         /\ o.listener = o.handle
         /\ \A p \in Perms3(a[1], a[2], a[3]) :
              LET r == onEvent(<<>>, p, sid)
              IN /\ r.threw = ""
                 /\ r.opts = o
                 /\ Len(r.L) = 1
                 /\ r.L[1].target = o.target.n
                 /\ r.L[1].type = o.event
                 /\ r.L[1].callback = o.handle
                 /\ \E j \in 1..Len(listeners) :
                      /\ SameEntry(listeners[j], r.L[1].target, r.L[1].type,
                                   r.L[1].callback, r.L[1].capture)
                      /\ sid \in listeners[j].owners

C8_Witness ==
  /\ \E sid \in 1..Len(specs) :
       /\ IsTriple(specs[sid].args)
       /\ specs[sid].args[1].k = "fn"
       /\ specs[sid].args[3].k = "node"
  /\ \E i \in 1..Len(log) : log[i].kind = "direct" /\ log[i].how = "call"

\* the kind of a positional argument
KindOf(v) ==
  IF instanceofElement(v) THEN "target"
  ELSE IF v.k = "str" THEN "text"
  ELSE IF v.k = "fn" THEN "callable"
  ELSE "other"

OfKind(a, kind) == SelectSeq(a, LAMBDA v : KindOf(v) = kind)

\* the argument lists that hold the arguments of a in another order, every
\* kind keeping the order of its own arguments
Reorderings(a) ==
  LET n == Len(a)
      perms == {p \in [1..n -> 1..n] : \A i, j \in 1..n : p[i] = p[j] => i = j}
      lists == {[i \in 1..n |-> a[p[i]]] : p \in perms}
  IN {b \in lists :
        \A kind \in {"target", "text", "callable", "other"} :
          OfKind(b, kind) = OfKind(a, kind)}

\* targets, texts and functions only
Positional(a) == \A i \in 1..Len(a) : KindOf(a[i]) # "other"

\* C12: for an argument list of targets, texts and functions, every
\* reordering that keeps the order within each kind resolves to the same
\* target, event, handle, selector and validate.
C12_OrderWithinKindsOnly ==
  \A sid \in 1..Len(specs) :
    LET a == specs[sid].args
        o == specs[sid].o
    IN (~specs[sid].batch /\ Positional(a)) =>
         \A b \in Reorderings(a) :
           LET c == classify(NewOpts, b)
           IN /\ c.target = o.target
              /\ c.event = o.event
              /\ c.handle = o.handle
              /\ c.selector = o.selector
              /\ c.validate = o.validate

\* C15: of two or more targets given positionally the first one is the spec's
\* target, and the host attached the listener to that one only.
C15_FirstTargetWins ==
  \A sid \in 1..Len(specs) :
    LET targets == OfKind(specs[sid].args, "target")
    IN (~specs[sid].batch /\ Len(targets) >= 2) =>
         /\ specs[sid].o.target = targets[1]
         /\ \A i \in 1..Len(specs[sid].host) :
              specs[sid].host[i].target = targets[1]

\* C18: what a delegated listener wrote to an event during one dispatch is
\* gone at the next dispatch of that event object: a listener, unless an
\* earlier listener of the same dispatch remapped the target, finds the
\* native target in event.target and no originalTarget.
C18_NoLeakAcrossDispatches ==
  \A i \in 1..Len(log) :
    (\A j \in 1..(i - 1) :
        log[j].native = log[i].native => ~log[j].remapped) =>
      /\ log[i].start = log[i].native
      /\ log[i].origBefore = Null

\* C19: a delegated registration whose selector is set and is neither a
\* text nor a callable never has its handler invoked.
C19_InvalidSelectorNeverHandles ==
  \A i \in 1..Len(log) :
    log[i].kind = "delegated" =>
      LET o == specs[log[i].sid].o
      IN (Truthy(o.selector) /\ selt(o) = 0) => log[i].how = "none"

\* C20: an onEvents call that fails with the invalid target error leaves the
\* host's attached listeners as they were before the call.
C20_FailedBatchAttachesNothing ==
  [][(last'.op = "onEvents" /\ last'.threw = "Invalid parent element") =>
       listeners' = listeners]_vars

\* the nodes of the tree that lie at most `levels` levels below node n
RECURSIVE Below(_, _, _, _)
Below(tree, n, levels, allNodes) ==
  IF levels = 0 THEN {}
  ELSE LET kids == {i \in DOMAIN tree.parent :
                      /\ tree.parent[i] = n
                      /\ (allNodes \/ i \notin tree.text)}
       IN kids \cup UNION {Below(tree, k, levels - 1, allNodes) : k \in kids}

Once(list, set) ==
  /\ {list[i] : i \in 1..Len(list)} = set
  /\ Len(list) = Cardinality(set)

\* C21: without a depth option getNested returns every descendant element
\* of the parent once (the tree has fewer than 100 levels); with depth d it
\* returns the descendants of the first d + 1 levels, once each.
C21_DefaultDepthIsWholeTree ==
  last.op = "getNested" =>
    LET opts == last.keys[1]
    IN Once(ret.items,
            Below(doc, 0,
                  IF opts.depth = Undef THEN 99 ELSE opts.depth.v + 1,
                  Truthy(opts.allNodes)))

\* the argument list without the callables after the third
RECURSIVE FirstCallables(_, _)
FirstCallables(a, n) ==
  IF a = <<>> THEN <<>>
  ELSE IF KindOf(Head(a)) = "callable"
       THEN IF n > 0 THEN <<Head(a)>> \o FirstCallables(Tail(a), n - 1)
            ELSE FirstCallables(Tail(a), 0)
       ELSE <<Head(a)>> \o FirstCallables(Tail(a), n)

At(seq, i) == IF i <= Len(seq) THEN seq[i] ELSE Undef

\* C23: of the callables of a call that gives targets, at most one text and
\* callables only, the first is the handle, the second the selector, the
\* third the validator, and the spec is the one the call without the
\* further callables builds.
C23_CallablesInOrder ==
  \A sid \in 1..Len(specs) :
    LET a == specs[sid].args
        o == specs[sid].o
        fns == OfKind(a, "callable")
    IN (~specs[sid].batch /\ Positional(a) /\ Len(OfKind(a, "text")) <= 1) =>
         /\ o.handle = At(fns, 1)
         /\ o.selector = At(fns, 2)
         /\ o.validate = At(fns, 3)
         /\ o = onEvent(<<>>, FirstCallables(a, 3), sid).opts

C23_Witness ==
  \E sid \in 1..Len(specs) :
    /\ Len(OfKind(specs[sid].args, "callable")) = 4
    /\ Len(OfKind(specs[sid].args, "text")) = 1
    /\ specs[sid].o.handle = Fn("h1")
    /\ specs[sid].o.selector = Fn("selL")
    /\ specs[sid].o.validate = Fn("v1")
    /\ \E i \in 1..Len(log) : log[i].sid = sid /\ log[i].how = "call"

\* the handler objects of an argument list that arrive after a handler
IsHandlerObject(v) == isObj(v) /\ typeof(Get(v, "handleEvent")) = F

LaterHandlerObjects(a) ==
  {i \in 1..Len(a) :
     /\ IsHandlerObject(a[i])
     /\ \E j \in 1..(i - 1) : typeof(a[j]) = F \/ IsHandlerObject(a[j])}

Without(a, drop) ==
  SelectSeq([i \in 1..Len(a) |-> IF i \in drop THEN Undef ELSE a[i]],
            LAMBDA v : v # Undef)

\* C24: a handler object that arrives after the handler was assigned is
\* discarded: the spec is the one the call without that object builds.
C24_SecondHandlerObjectDiscarded ==
  \A sid \in 1..Len(specs) :
    LET a == specs[sid].args
    IN (~specs[sid].batch /\ LaterHandlerObjects(a) # {}) =>
         specs[sid].o = onEvent(<<>>, Without(a, LaterHandlerObjects(a)), sid).opts

\* C27: spec.off and reg.off stop only the registrations they detach: a
\* registration that was attached before the call and is not among those
\* whose off() the call ran is attached after it.
C27_OffStopsOnlyItsOwn ==
  [][last'.op \in {"off", "regoff"} =>
       \A sid \in 1..Len(specs) :
         (sid \notin last'.done /\ AttachedIn(listeners, sid)) =>
            AttachedIn(listeners', sid)]_vars

\* C28: reg.off, with or without arguments, changes nothing in a registry:
\* the flat sequence, the map and every list reg.for gives hold the same
\* registrations in the same order as before, the detached ones included.
C28_OffKeepsRegistry ==
  [][last'.op = "regoff" =>
       \A i \in 1..Len(regs) :
         /\ regs'[i].all = regs[i].all
         /\ regs'[i].map = regs[i].map
         /\ \A key \in ProbeKeys : regFor(regs'[i], key) = regFor(regs[i], key)]_vars

C28_Witness ==
  /\ last.op = "regoff"
  /\ last.keys = <<click>>
  /\ \E sid \in last.done :
       /\ specs[sid].offed
       /\ ~Attached(sid)
       /\ \E j \in 1..Len(regs[last.reg].all) : regs[last.reg].all[j] = sid
       /\ regFor(regs[last.reg], click) # Undef
       /\ \E j \in 1..Len(regFor(regs[last.reg], click).items) :
            regFor(regs[last.reg], click).items[j] = sid

\* C29: the event name of every registration made by onEvents is a text of
\* at least one character, none of them whitespace.
C29_EventNamesAreTokens ==
  \A sid \in 1..Len(specs) :
    specs[sid].batch =>
      /\ specs[sid].o.event.k = "str"
      /\ specs[sid].o.event.s # <<>>
      /\ \A i \in 1..Len(specs[sid].o.event.s) :
           specs[sid].o.event.s[i] \notin WSP

====
